---- MODULE Spec2Model ----
(***************************************************************************)
(* PlayerInspector.stories.tsx: the msw route registrations of the story   *)
(* and the BasicTemplate component, which dispatches the loads of          *)
(* sessionRecordingDataLogic from its render body and from an effect keyed *)
(* on sessionPlayerMetaData.                                               *)
(***************************************************************************)
EXTENDS Integers, Sequences, FiniteSets, TLC

\* Bounds of the model.
MaxRenders == 3      \* renders of BasicTemplate explored
MaxSegs == 6         \* longest concrete request path, in segments
MaxProps == 2        \* longest query.properties list

VARIABLES
    mounted,                \* BasicTemplate has rendered (the logic is built)
    unmounted,              \* BasicTemplate has been unmounted (the session ended)
    renders,                \* number of renders so far
    loads,                  \* per LoadState: lifecycle, requests in flight, requests issued
    sessionPlayerMetaData,  \* the value useValues(dataLogic) exposes
    effectDeps,             \* dependency array of the last render, <<>> before mount
    effectPending,          \* the effect of the last render is scheduled
    dispatched,             \* trace of dispatched actions, oldest first
    request,                \* the request the mock is handling
    matched,                \* the registered routes that match it
    response,               \* what the mock answered
    earlier                 \* an answered request of the past, kept for comparison

vars == <<mounted, unmounted, renders, loads, sessionPlayerMetaData, effectDeps,
          effectPending, dispatched, request, matched, response, earlier>>

templateVars == <<mounted, unmounted, renders, loads, sessionPlayerMetaData, effectDeps,
                  effectPending, dispatched>>

routerVars == <<request, matched, response, earlier>>

(***************************************************************************)
(* The data-loading facade (sessionRecordingDataLogic)                     *)
(***************************************************************************)

LoadKinds == {"metadata", "snapshots", "events"}

\* A start-load call that issues a request whatever the lifecycle is.
startLoadAlways(l, kind) ==
    [l EXCEPT ![kind] = [state |-> "loading",
                         inflight |-> @.inflight + 1,
                         issued |-> @.issued + 1]]

\* startLoad(kind): unloaded -> loading and one simulated request; a call in
\* any other lifecycle state is a no-op.
startLoad(l, kind) ==
    IF l[kind].state = "unloaded"
    THEN [l EXCEPT ![kind] = [state |-> "loading",
                              inflight |-> @.inflight + 1,
                              issued |-> @.issued + 1]]
    ELSE l

\* What a dispatch leaves in the trace: the action and the lifecycle of the
\* three LoadStates at the moment of the dispatch.
Dispatch(action, l) ==
    [action |-> action,
     metadata |-> l["metadata"].state,
     snapshots |-> l["snapshots"].state,
     events |-> l["events"].state]

\* The harness starts the metadata load once the logic exists.
LoadMeta ==
    /\ mounted
    /\ loads["metadata"].state = "unloaded"
    /\ loads' = startLoad(loads, "metadata")
    /\ UNCHANGED <<mounted, unmounted, renders, sessionPlayerMetaData, effectDeps,
                   effectPending, dispatched>>
    /\ UNCHANGED routerVars

\* The lifecycle of every LoadState, without the request counters.
Lifecycle(l) == [k \in LoadKinds |-> l[k].state]

\* A resolution that writes its result whether or not the load is relevant.
ResolveLoadUnchecked(kind, ok) ==
    /\ loads[kind].inflight > 0
    /\ loads' = [loads EXCEPT ![kind] =
                    [state |-> IF ok THEN "loaded" ELSE "failed",
                     inflight |-> @.inflight - 1,
                     issued |-> @.issued]]
    /\ sessionPlayerMetaData' =
           IF kind = "metadata" /\ ok THEN "recordingMeta" ELSE sessionPlayerMetaData
    /\ UNCHANGED <<mounted, unmounted, renders, effectDeps, effectPending, dispatched>>
    /\ UNCHANGED routerVars

\* A request in flight resolves: loading -> loaded, or -> failed on an error.
\* The metadata value becomes available when its load resolves to loaded.
\* The resolution checks that the load is still relevant before it writes:
\* once the session has ended the request is dropped and nothing is written.
ResolveLoad(kind, ok) ==
    /\ loads[kind].inflight > 0
    /\ loads' = [loads EXCEPT ![kind] =
                    [state |-> IF unmounted THEN @.state
                               ELSE IF ok THEN "loaded" ELSE "failed",
                     inflight |-> @.inflight - 1,
                     issued |-> @.issued]]
    /\ sessionPlayerMetaData' =
           IF kind = "metadata" /\ ok /\ ~unmounted
           THEN "recordingMeta" ELSE sessionPlayerMetaData
    /\ UNCHANGED <<mounted, unmounted, renders, effectDeps, effectPending, dispatched>>
    /\ UNCHANGED routerVars

(***************************************************************************)
(* BasicTemplate                                                           *)
(***************************************************************************)

\* An effect without a dependency array: scheduled after every render.
depsChangedAlways(prev, next) == TRUE

\* useEffect(..., deps): the callback is scheduled after the first render and
\* after a render whose dependency array differs from the previous one.
depsChanged(prev, next) == prev = <<>> \/ prev # next

\* A render body that calls loadSnapshots() only once the metadata is there.
RenderAfterMeta ==
    /\ ~effectPending
    /\ ~unmounted
    /\ renders < MaxRenders
    /\ mounted' = TRUE
    /\ UNCHANGED unmounted
    /\ renders' = renders + 1
    /\ dispatched' = IF sessionPlayerMetaData = "null" THEN dispatched
                      ELSE Append(dispatched, Dispatch("loadSnapshots", loads))
    /\ loads' = IF sessionPlayerMetaData = "null" THEN loads
                 ELSE startLoad(loads, "snapshots")
    /\ effectDeps' = <<sessionPlayerMetaData>>
    /\ effectPending' = depsChanged(effectDeps, <<sessionPlayerMetaData>>)
    /\ UNCHANGED sessionPlayerMetaData
    /\ UNCHANGED routerVars

\* The render body: read sessionPlayerMetaData, dispatch loadSnapshots(),
\* register the effect with the dependency array [sessionPlayerMetaData].
\* React flushes the pending effect of a render before it renders again.
Render ==
    /\ ~effectPending
    /\ ~unmounted
    /\ renders < MaxRenders
    /\ mounted' = TRUE
    /\ UNCHANGED unmounted
    /\ renders' = renders + 1
    /\ dispatched' = Append(dispatched, Dispatch("loadSnapshots", loads))
    /\ loads' = startLoad(loads, "snapshots")
    /\ effectDeps' = <<sessionPlayerMetaData>>
    /\ effectPending' = depsChanged(effectDeps, <<sessionPlayerMetaData>>)
    /\ UNCHANGED sessionPlayerMetaData
    /\ UNCHANGED routerVars

\* The effect callback: loadEvents().
RunEffect ==
    /\ effectPending
    /\ dispatched' = Append(dispatched, Dispatch("loadEvents", loads))
    /\ loads' = startLoad(loads, "events")
    /\ effectPending' = FALSE
    /\ UNCHANGED <<mounted, unmounted, renders, sessionPlayerMetaData, effectDeps>>
    /\ UNCHANGED routerVars

\* The story is torn down. React flushes a pending effect before it commits
\* the unmount; the effect registers no cleanup, so nothing else runs.
Unmount ==
    /\ mounted
    /\ ~effectPending
    /\ mounted' = FALSE
    /\ unmounted' = TRUE
    /\ UNCHANGED <<renders, loads, sessionPlayerMetaData, effectDeps,
                   effectPending, dispatched>>
    /\ UNCHANGED routerVars

(***************************************************************************)
(* The registrations handed to mswDecorator                                *)
(***************************************************************************)

\* Fixtures, opaque to the story.
recordingMetaJson == [fixture |-> "recording_meta.json"]

recordingEventsJson == [fixture |-> "recording_events_query"]

snapshotsAsJSONLines == [lines |-> "recording_snapshots"]

SourcesPayload ==
    [sources |-> << [source |-> "blob",
                     start_timestamp |-> "2023-08-11T12:03:36.097000Z",
                     end_timestamp |-> "2023-08-11T12:04:52.268000Z",
                     blob_key |-> "1691755416097-1691755492268"] >>]

EmptyResults == [results |-> <<>>]

\* Path templates, one segment per element; a segment starting with ':' is
\* dynamic.
DynamicSegments == {":team_id", ":id"}

RecordingTemplate ==
    <<"api", "environments", ":team_id", "session_recordings", ":id">>

\* A snapshots template that stops at the recording id.
SnapshotsTemplateShort ==
    <<"api", "environments", ":team_id", "session_recordings", ":id">>

SnapshotsTemplate ==
    <<"api", "environments", ":team_id", "session_recordings", ":id", "snapshots">>

QueryTemplate == <<"api", "environments", ":team_id", "query">>

\* The registration set: method -> routes in registration order, each a
\* template and the handler registered under it.
RecordingRoute == [template |-> RecordingTemplate, handler |-> "recordingMetaJson"]

SnapshotsRoute == [template |-> SnapshotsTemplate, handler |-> "snapshots"]

QueryRoute == [template |-> QueryTemplate, handler |-> "query"]

Registered(method) ==
    IF method = "GET" THEN <<RecordingRoute, SnapshotsRoute>>
    ELSE IF method = "POST" THEN <<QueryRoute>>
    ELSE <<>>

\* Structural matching: equal segment count, equal literal segments, a
\* dynamic segment accepts any non-empty token.
Matches(template, path) ==
    /\ Len(template) = Len(path)
    /\ \A i \in 1..Len(template) :
          IF template[i] \in DynamicSegments
          THEN path[i] # ""
          ELSE path[i] = template[i]

MatchingRoutes(method, path) ==
    {Registered(method)[i] : i \in {j \in 1..Len(Registered(method)) :
                                       Matches(Registered(method)[j].template, path)}}

\* Responses: res(ctx.json(x)), res(ctx.text(x)), the [status, json] tuple
\* form, and a handler that threw.
JsonResponse(status, payload) ==
    [outcome |-> "response", status |-> status, ctype |-> "json", payload |-> payload]

TextResponse(status, payload) ==
    [outcome |-> "response", status |-> status, ctype |-> "text", payload |-> payload]

Thrown(error) == [outcome |-> "exception", error |-> error]

Building == [outcome |-> "building"]

Pending == [outcome |-> "pending"]

NoMatch == [outcome |-> "NoMatch"]

\* req.url.searchParams.get('source'): <<>> when absent, <<value>> otherwise.
\* A handler with the test on source inverted.
SnapshotsHandlerInverted(source) ==
    IF source # <<"blob">>
    THEN TextResponse(200, snapshotsAsJSONLines)
    ELSE JsonResponse(200, SourcesPayload)

\* A handler that answers the snapshot lines whenever source is present.
SnapshotsHandlerAnySource(source) ==
    IF source # <<>>
    THEN TextResponse(200, snapshotsAsJSONLines)
    ELSE JsonResponse(200, SourcesPayload)

\* A handler that serialises the snapshot lines with ctx.json.
SnapshotsHandlerJson(source) ==
    IF source = <<"blob">>
    THEN JsonResponse(200, snapshotsAsJSONLines)
    ELSE JsonResponse(200, SourcesPayload)

SnapshotsHandler(source) ==
    IF source = <<"blob">>
    THEN TextResponse(200, snapshotsAsJSONLines)
    ELSE JsonResponse(200, SourcesPayload)

\* A handler that only looks at the kind.
QueryHandlerKindOnly(body) ==
    IF "query" \notin DOMAIN body
    THEN Thrown("TypeError")
    ELSE IF "kind" \in DOMAIN body.query /\ body.query.kind = "EventsQuery"
    THEN JsonResponse(200, recordingEventsJson)
    ELSE JsonResponse(200, EmptyResults)

\* A handler that asks for more than one property.
QueryHandlerMoreThanOne(body) ==
    IF "query" \notin DOMAIN body
    THEN Thrown("TypeError")
    ELSE IF "kind" \in DOMAIN body.query /\ body.query.kind = "EventsQuery"
    THEN IF "properties" \notin DOMAIN body.query
         THEN Thrown("TypeError")
         ELSE IF Len(body.query.properties) > 1
         THEN JsonResponse(200, recordingEventsJson)
         ELSE JsonResponse(200, EmptyResults)
    ELSE JsonResponse(200, EmptyResults)

\* body.query.kind === 'EventsQuery' && body.query.properties.length === 1.
\* Reading a field of undefined throws; && does not evaluate its right side
\* when the left side is false.
QueryHandler(body) ==
    IF "query" \notin DOMAIN body
    THEN Thrown("TypeError")
    ELSE IF "kind" \in DOMAIN body.query /\ body.query.kind = "EventsQuery"
    THEN IF "properties" \notin DOMAIN body.query
         THEN Thrown("TypeError")
         ELSE IF Len(body.query.properties) = 1
         THEN JsonResponse(200, recordingEventsJson)
         ELSE JsonResponse(200, EmptyResults)
    ELSE JsonResponse(200, EmptyResults)

\* Handlers that look at the team_id path parameter.
HandleByTeam(route, req) ==
    IF req.path[3] = "query" THEN JsonResponse(404, EmptyResults)
    ELSE IF route.handler = "snapshots" THEN SnapshotsHandler(req.source)
    ELSE IF route.handler = "query" THEN QueryHandler(req.body)
    ELSE JsonResponse(200, recordingMetaJson)

\* The handler registered under a route, applied to a request.
Handle(route, req) ==
    IF route.handler = "snapshots" THEN SnapshotsHandler(req.source)
    ELSE IF route.handler = "query" THEN QueryHandler(req.body)
    ELSE JsonResponse(200, recordingMetaJson)

\* Inputs of the router.
Tokens == {"api", "environments", "session_recordings", "snapshots", "query", ""}

Methods == {"GET", "POST"}

Sources == {<<>>, <<"blob">>, <<"realtime">>, <<"">>}

QueryKinds == {"EventsQuery", "HogQLQuery"}

PropertyItems == {"sessionFilter", "personFilter"}

PropertyLists == UNION {[1..n -> PropertyItems] : n \in 0..MaxProps}

Queries ==
    {[other |-> "x"]}
        \cup {[kind |-> k] : k \in QueryKinds}
        \cup {[properties |-> p] : p \in PropertyLists}
        \cup {[kind |-> k, properties |-> p] : k \in QueryKinds, p \in PropertyLists}

Bodies == {[other |-> "x"]} \cup {[query |-> q] : q \in Queries}

\* A client starts a request and writes its path, one segment at a time.
NewRequest(method) ==
    /\ response # Building
    /\ request' = [method |-> method, path |-> <<>>, source |-> <<>>, body |-> <<>>]
    /\ matched' = {}
    /\ response' = Building
    /\ UNCHANGED earlier
    /\ UNCHANGED templateVars

AddSegment(token) ==
    /\ response = Building
    /\ Len(request.path) < MaxSegs
    /\ request' = [request EXCEPT !.path = Append(@, token)]
    /\ UNCHANGED <<matched, response, earlier>>
    /\ UNCHANGED templateVars

\* The mock intercepts the request and looks up the registered templates.
Intercept ==
    /\ response = Building
    /\ request.path # <<>>
    /\ matched' = MatchingRoutes(request.method, request.path)
    /\ response' = IF matched' = {} THEN NoMatch ELSE Pending
    /\ UNCHANGED <<request, earlier>>
    /\ UNCHANGED templateVars

\* The handler of the matching template answers the intercepted request.
Respond(source, body) ==
    /\ response = Pending
    /\ \E route \in matched :
          /\ request' = [request EXCEPT !.source = source, !.body = body]
          /\ response' = Handle(route, request')
    /\ UNCHANGED <<matched, earlier>>
    /\ UNCHANGED templateVars

RespondGet == \E source \in Sources : request.method = "GET" /\ Respond(source, <<>>)

RespondPost == \E body \in Bodies : request.method = "POST" /\ Respond(<<>>, body)

\* Requests that land on a registered route: a template with its dynamic
\* segments filled in.
PathParams == {"snapshots", "query"}

Instantiate(template, team_id, id) ==
    [i \in 1..Len(template) |->
        IF template[i] = ":team_id" THEN team_id
        ELSE IF template[i] = ":id" THEN id
        ELSE template[i]]

\* The mock serves a whole request: interception, lookup and handler.
Serve(method, path, source, body) ==
    /\ request' = [method |-> method, path |-> path, source |-> source, body |-> body]
    /\ matched' = MatchingRoutes(method, path)
    /\ \E route \in matched' : response' = Handle(route, request')
    /\ UNCHANGED earlier
    /\ UNCHANGED templateVars

ServeGet ==
    \E i \in 1..Len(Registered("GET")), team_id \in PathParams, id \in PathParams,
       source \in Sources :
        Serve("GET", Instantiate(Registered("GET")[i].template, team_id, id), source, <<>>)

ServePost ==
    \E i \in 1..Len(Registered("POST")), team_id \in PathParams, body \in Bodies :
        Serve("POST", Instantiate(Registered("POST")[i].template, team_id, team_id), <<>>, body)

\* The answered request is kept, to be compared with the ones served later.
Remember ==
    /\ response.outcome \in {"response", "exception"}
    /\ earlier' = [request |-> request, matched |-> matched, response |-> response]
    /\ UNCHANGED <<request, matched, response>>
    /\ UNCHANGED templateVars

(***************************************************************************)
(* Properties of BasicTemplate, checked under Spec                         *)
(***************************************************************************)

EventsDispatches == {i \in DOMAIN dispatched : dispatched[i].action = "loadEvents"}

SnapshotsDispatches == {i \in DOMAIN dispatched : dispatched[i].action = "loadSnapshots"}

\* C1: loadEvents is never dispatched before the session metadata LoadState
\* has reached loaded: every loadEvents dispatch of the trace happened with
\* metadata loaded, none with metadata unloaded or loading.
C1_LoadEventsOnlyAfterMetaLoaded ==
    \A i \in EventsDispatches : dispatched[i].metadata = "loaded"

\* C2: loadEvents is dispatched at most once over the whole trace, and exactly
\* once when the effect of a render that saw the loaded metadata has run.
C2_LoadEventsExactlyOnce ==
    /\ Cardinality(EventsDispatches) <= 1
    /\ (effectDeps = <<"recordingMeta">> /\ ~effectPending)
          => Cardinality(EventsDispatches) = 1

\* C3: when the metadata load has failed, loadEvents has not been dispatched
\* and the events LoadState is still unloaded.
C3_FailedMetaBlocksEvents ==
    loads["metadata"].state = "failed"
        => /\ EventsDispatches = {}
           /\ loads["events"].state = "unloaded"

C12_EffectScopedToMetaData ==
    [][(renders >= 1 /\ renders' = renders + 1
            /\ effectDeps = <<sessionPlayerMetaData>>)
          => /\ effectPending' = FALSE
             /\ EventsDispatches' = EventsDispatches]_vars

\* C12 witness: BasicTemplate has re-rendered after the snapshots LoadState
\* moved on while the metadata value stayed null, and the only loadEvents
\* dispatch is the one of the mount.
C12_Witness ==
    /\ renders >= 2
    /\ ~effectPending
    /\ sessionPlayerMetaData = "null"
    /\ \E i \in SnapshotsDispatches : dispatched[i].snapshots \in {"loaded", "failed"}
    /\ Cardinality(EventsDispatches) = 1

\* C14: every loadEvents dispatch has a loadSnapshots dispatch before it in
\* the trace, and every render has dispatched loadSnapshots, whatever the
\* LoadStates were.
C14_SnapshotsBeforeEvents ==
    /\ \A i \in EventsDispatches : \E j \in SnapshotsDispatches : j < i
    /\ Cardinality(SnapshotsDispatches) = renders

\* C14 witness: loadEvents has been dispatched, after a loadSnapshots that
\* was dispatched with every LoadState still unloaded.
C14_Witness ==
    /\ EventsDispatches # {}
    /\ \E j \in SnapshotsDispatches :
          /\ dispatched[j].metadata = "unloaded"
          /\ dispatched[j].snapshots = "unloaded"
          /\ dispatched[j].events = "unloaded"

(***************************************************************************)
(* Properties of the registered routes, checked under SpecRouter           *)
(***************************************************************************)

Responded == response.outcome \in {"response", "exception"}

\* C4: every request answered by a content-branching route (snapshots, query)
\* gets a response: the handler never throws and never yields NoMatch.
C4_HandlersAlwaysRespond ==
    (matched \cap {SnapshotsRoute, QueryRoute} # {} /\ response # Pending)
        => response.outcome = "response"

\* C6: a GET on the snapshots route with source absent is answered with
\* status 200 and the JSON sources list, whatever team_id and id are.
C6_SourceAbsentReturnsSources ==
    (Responded /\ matched = {SnapshotsRoute} /\ request.source = <<>>)
        => /\ response.status = 200
           /\ response.ctype = "json"
           /\ response.payload =
                 [sources |-> << [source |-> "blob",
                                  start_timestamp |-> "2023-08-11T12:03:36.097000Z",
                                  end_timestamp |-> "2023-08-11T12:04:52.268000Z",
                                  blob_key |-> "1691755416097-1691755492268"] >>]

\* C6 witness: such a request has been answered, with a team_id and an id.
C6_Witness ==
    /\ Responded
    /\ matched = {SnapshotsRoute}
    /\ request.source = <<>>
    /\ request.path[3] = "query"
    /\ request.path[5] = "snapshots"

\* C7: a GET on the snapshots route with source=blob is answered with status
\* 200 and the snapshot lines as text, never with the sources list.
C7_SourceBlobReturnsText ==
    (Responded /\ matched = {SnapshotsRoute} /\ request.source = <<"blob">>)
        => /\ response.status = 200
           /\ response.ctype = "text"
           /\ response.payload = snapshotsAsJSONLines
           /\ response.payload # SourcesPayload

\* C7 witness: a request with source=blob has been answered.
C7_Witness ==
    /\ Responded
    /\ matched = {SnapshotsRoute}
    /\ request.source = <<"blob">>

IsQueryBody(body) ==
    /\ "query" \in DOMAIN body
    /\ "kind" \in DOMAIN body.query
    /\ "properties" \in DOMAIN body.query

OneEventsProperty(body) ==
    body.query.kind = "EventsQuery" /\ Len(body.query.properties) = 1

\* C8: a POST on the query route with kind 'EventsQuery' and exactly one
\* property is answered with the events fixture, whatever the property is.
C8_OnePropertyReturnsEvents ==
    (Responded /\ matched = {QueryRoute} /\ IsQueryBody(request.body)
        /\ OneEventsProperty(request.body))
        => response = JsonResponse(200, recordingEventsJson)

\* C8 witness: an EventsQuery with the single property personFilter has been
\* answered.
C8_Witness ==
    /\ Responded
    /\ matched = {QueryRoute}
    /\ IsQueryBody(request.body)
    /\ request.body.query.kind = "EventsQuery"
    /\ request.body.query.properties = <<"personFilter">>

\* C9: a POST on the query route with a kind and a properties list that is
\* not (EventsQuery with exactly one property) is answered with {results: []}
\* and never with the events fixture.
C9_OtherwiseEmptyResults ==
    (Responded /\ matched = {QueryRoute} /\ IsQueryBody(request.body)
        /\ ~OneEventsProperty(request.body))
        => /\ response = JsonResponse(200, [results |-> <<>>])
           /\ response.payload # recordingEventsJson

\* C9 witness: an EventsQuery with zero properties has been answered.
C9_Witness ==
    /\ Responded
    /\ matched = {QueryRoute}
    /\ IsQueryBody(request.body)
    /\ request.body.query.kind = "EventsQuery"
    /\ request.body.query.properties = <<>>

\* C10: no concrete path is matched by two registered templates of the same
\* method: at most one GET template and at most one POST template match.
C10_NoOverlappingTemplates ==
    /\ Cardinality(matched) <= 1
    /\ \A method \in Methods :
          Cardinality(MatchingRoutes(method, request.path)) <= 1
    /\ ~(Matches(RecordingTemplate, request.path)
            /\ Matches(SnapshotsTemplate, request.path))

\* C10 witness: a GET path matched by the snapshots template whose first five
\* segments are matched by the recording template.
C10_Witness ==
    /\ request.method = "GET"
    /\ matched = {SnapshotsRoute}
    /\ Matches(RecordingTemplate, SubSeq(request.path, 1, 5))

\* C13: on the snapshots route only source = 'blob' selects the text branch:
\* any other source, present or absent, gets the status-200 sources list,
\* and both branches answer with status 200.
C13_BranchOnlyOnBlob ==
    (Responded /\ matched = {SnapshotsRoute})
        => /\ response.outcome = "response"
           /\ response.status = 200
           /\ (response.payload = SourcesPayload) = (request.source # <<"blob">>)
           /\ (response.ctype = "json") = (request.source # <<"blob">>)

\* C13 witness: a request whose source is present and empty has been
\* answered with the sources list.
C13_Witness ==
    /\ Responded
    /\ matched = {SnapshotsRoute}
    /\ request.source = <<"">>
    /\ response.payload = SourcesPayload

(***************************************************************************)
(* Properties of request sequences, checked under SpecReplay               *)
(***************************************************************************)

SameRequestAsEarlier ==
    /\ earlier.response.outcome # "idle"
    /\ earlier.request.method = request.method
    /\ earlier.matched = matched
    /\ earlier.request.source = request.source
    /\ earlier.request.body = request.body

\* C15: a request with the same method, route, source and parsed body as an
\* earlier one gets the same answer, whatever was served in between and
\* whatever team_id and id the two paths carry.
C15_SameRequestSameAnswer ==
    (Responded /\ SameRequestAsEarlier) => response = earlier.response

\* C15 witness: the query route has answered the same body twice, under two
\* different team_id.
C15_Witness ==
    /\ Responded
    /\ SameRequestAsEarlier
    /\ matched = {QueryRoute}
    /\ response.outcome = "response"
    /\ earlier.request.path # request.path

(***************************************************************************)
(* Specifications                                                          *)
(***************************************************************************)

NoRequest == [method |-> "NONE", path |-> <<>>, source |-> <<>>, body |-> <<>>]

Idle == [outcome |-> "idle"]

Init ==
    /\ mounted = FALSE
    /\ unmounted = FALSE
    /\ renders = 0
    /\ loads = [k \in LoadKinds |-> [state |-> "unloaded", inflight |-> 0, issued |-> 0]]
    /\ sessionPlayerMetaData = "null"
    /\ effectDeps = <<>>
    /\ effectPending = FALSE
    /\ dispatched = <<>>
    /\ request = NoRequest
    /\ matched = {}
    /\ response = Idle
    /\ earlier = [request |-> NoRequest, matched |-> {}, response |-> Idle]

Next ==
    \/ Render
    \/ RunEffect
    \/ LoadMeta
    \/ Unmount
    \/ \E kind \in LoadKinds, ok \in BOOLEAN : ResolveLoad(kind, ok)

Spec == Init /\ [][Next]_vars

NextRouter ==
    \/ \E method \in Methods : NewRequest(method)
    \/ \E token \in Tokens : AddSegment(token)
    \/ Intercept
    \/ RespondGet
    \/ RespondPost

SpecRouter == Init /\ [][NextRouter]_vars

NextReplay ==
    \/ ServeGet
    \/ ServePost
    \/ Remember

SpecReplay == Init /\ [][NextReplay]_vars

====
